---- MODULE Spec2Model ----
(***************************************************************************)
(* buzz: one IMAP watch connection per (account, folder), each run on its  *)
(* own thread, reporting counts of new mail over an mpsc channel to the    *)
(* loop in main that keeps the vector `new` and the tray icon.             *)
(*                                                                         *)
(* The model follows src/src/main.rs: AccountFolder::connect, the startup  *)
(* connect loop of main, Connection::handle, Connection::check and the     *)
(* receive loop of main.                                                   *)
(***************************************************************************)
EXTENDS Integers, Sequences, FiniteSets, TLC

\* ------------------------------------------------------------------ bounds

\* Number of configured watch targets (account folders).
NumTargets == 2
\* Message uids the server can report are 1..MaxUid.
MaxUid == 2
\* Dates a parsed header can carry are 1..MaxDate.
MaxDate == 2
\* Messages the model lets sit in the channel at once (the channel of the
\* program is unbounded).
MaxChan == 1

\* ------------------------------------------------------- program constants

\* `for _ in 0..5` of the connect loops.
MaxAttempts == 5
\* `let mut wait = 1`.
InitialWait == 1

Targets == 1..NumTargets
Uids == 1..MaxUid
Dates == 1..MaxDate

\* What AccountFolder::connect can return: a session, an I/O error of the
\* imap crate, the "server does not support IDLE" error, or any other error
\* (login, capabilities, select).
ConnectResults == {"ok", "io", "noidle", "other"}

VARIABLES
    mainPc,         \* where main is: "startup", "loop", "returning", "exited"
    st,             \* per target, the startup connect loop: "trying", "ok", "dropped"
    stAttempts,     \* per target, iterations of the startup loop done
    stWait,         \* per target, `wait` of the startup loop
    id,             \* per target, the index enumerate() gave its connection (-1: none)
    pc,             \* per target, where its thread is
    last_notified,  \* per target, local of check
    notification,   \* per target, local of check: "None" or "Some"
    uids,           \* per target, local of check: the search result after the clear
    num_new,        \* per target, local of check
    subjects,       \* per target, local of check: date -> uid of the subject line
    attempts,       \* per target, iterations of the reconnect loop done
    wait,           \* per target, `wait` of the reconnect loop
    slept,          \* per target, the sleeps of the current reconnect loop
    chan,           \* the mpsc channel: messages sent and not yet received
    sent,           \* per target, the count of its last successful send (0: none yet)
    new,            \* the vector of main, indexed 0..N-1
    icon            \* the tray icon

vars == <<mainPc, st, stAttempts, stWait, id, pc, last_notified, notification,
          uids, num_new, subjects, attempts, wait, slept, chan, sent, new, icon>>

startVars == <<st, stAttempts, stWait>>
checkVars == <<last_notified, notification, uids, num_new, subjects>>
retryVars == <<attempts, wait, slept>>
aggVars == <<new, icon>>

\* ----------------------------------------------------------------- helpers

NoSubjects == [d \in {} |-> 0]

Max(S) == CHOOSE x \in S : \A y \in S : y <= x

\* uids.iter().cloned().max().unwrap_or(0)
MaxOrZero(S) == IF S = {} THEN 0 ELSE Max(S)

RECURSIVE Sum(_)
Sum(f) ==
    IF DOMAIN f = {} THEN 0
    ELSE LET i == CHOOSE x \in DOMAIN f : TRUE
         IN  f[i] + Sum([j \in DOMAIN f \ {i} |-> f[j]])

\* A message that carries index 0 whatever the connection.
SomeMsgFirst(i, n) == [some |-> TRUE, id |-> 0, n |-> n]

\* Some((account, num_new)) and None
SomeMsg(i, n) == [some |-> TRUE, id |-> i, n |-> n]
NoneMsg == [some |-> FALSE, id |-> 0, n |-> 0]

\* The receiver exists from mpsc::channel() until the `for r in rx` loop ends.
RxAlive == mainPc \in {"startup", "loop"}

\* A thread runs until the process exits.
Running(t) == mainPc # "exited" /\ pc[t] \notin {"unspawned", "terminated", "panicked"}

\* The state when main starts to connect, the targets of `tried` still to try.
InitTrying(tried) ==
    /\ mainPc = "startup"
    /\ st = [t \in Targets |-> IF t \in tried THEN "trying" ELSE "dropped"]
    /\ stAttempts = [t \in Targets |-> 0]
    /\ stWait = [t \in Targets |-> InitialWait]
    /\ id = [t \in Targets |-> -1]
    /\ pc = [t \in Targets |-> "unspawned"]
    /\ last_notified = [t \in Targets |-> 0]
    /\ notification = [t \in Targets |-> "None"]
    /\ uids = [t \in Targets |-> {}]
    /\ num_new = [t \in Targets |-> 0]
    /\ subjects = [t \in Targets |-> NoSubjects]
    /\ attempts = [t \in Targets |-> 0]
    /\ wait = [t \in Targets |-> InitialWait]
    /\ slept = [t \in Targets |-> <<>>]
    /\ chan = <<>>
    /\ sent = [t \in Targets |-> 0]
    /\ new = [i \in {} |-> 0]
    /\ icon = "Disconnected"

Init == InitTrying(Targets)

\* ------------------------------------------------- main: connecting at startup

\* A wait that grows by one second instead of doubling.
NextWaitLinear(w) == w + 1

\* wait *= 2
NextWait(w) == w * 2

\* The error arm of the startup loop: only an imap I/O error is retried.
StartupRetries(r) == r = "io"

\* One iteration of the startup loop of one target: connect, and on an I/O
\* error sleep `wait` seconds, double it and go on; on any other error give
\* the target up; after the fifth iteration the target yields None. The
\* closure's `wait` and loop counter end with it.
StartConnect(t, r) ==
    /\ mainPc = "startup"
    /\ st[t] = "trying"
    /\ stAttempts[t] < MaxAttempts
    /\ IF r # "ok" /\ StartupRetries(r) /\ stAttempts[t] + 1 < MaxAttempts
         THEN /\ stAttempts' = [stAttempts EXCEPT ![t] = @ + 1]
              /\ stWait' = [stWait EXCEPT ![t] = NextWait(@)]
              /\ UNCHANGED st
         ELSE /\ st' = [st EXCEPT ![t] = IF r = "ok" THEN "ok" ELSE "dropped"]
              /\ stAttempts' = [stAttempts EXCEPT ![t] = 0]
              /\ stWait' = [stWait EXCEPT ![t] = InitialWait]
    /\ UNCHANGED <<mainPc, id, pc, checkVars, retryVars, chan, sent, aggVars>>

Connected == {t \in Targets : st[t] = "ok"}

\* The position of target t among the configured targets, connected or not.
IndexOfTarget(t) == t - 1

\* The index enumerate() gives the connection of target t: collect() keeps the
\* order of the targets, so it is the number of connected targets before t.
IndexOf(t) == Cardinality({u \in Connected : u < t})

\* `accounts.is_empty()` after the connect loops: main returns.
NoAccountWorked ==
    /\ mainPc = "startup"
    /\ \A t \in Targets : st[t] # "trying"
    /\ Connected = {}
    /\ mainPc' = "exited"
    /\ UNCHANGED <<startVars, id, pc, checkVars, retryVars, chan, sent, aggVars>>

\* The icon is set to Connected, `new` gets one zero per connection, and one
\* thread per connection is spawned with its index; each thread enters
\* handle and, in it, check.
Spawn ==
    /\ mainPc = "startup"
    /\ \A t \in Targets : st[t] # "trying"
    /\ Connected # {}
    /\ mainPc' = "loop"
    /\ icon' = "Connected"
    /\ new' = [i \in 0..(Cardinality(Connected) - 1) |-> 0]
    /\ id' = [t \in Targets |-> IF t \in Connected THEN IndexOf(t) ELSE -1]
    /\ pc' = [t \in Targets |-> IF t \in Connected THEN "search" ELSE "unspawned"]
    /\ UNCHANGED <<startVars, checkVars, retryVars, chan, sent>>

\* ------------------------------------------------------ Connection::check

\* if uids.iter().all(|&uid| uid <= last_notified) { uids.clear(); }
Dedupe(raw, mark) == IF \A u \in raw : u <= mark THEN {} ELSE raw

\* A mark that follows the batch alone and forgets the mark held.
NextMarkOfBatch(mark, us) == MaxOrZero(us)

\* std::cmp::max(last_notified, uids.iter().cloned().max().unwrap_or(0))
NextMark(mark, us) == IF MaxOrZero(us) > mark THEN MaxOrZero(us) ELSE mark

\* check returns the error of a failed search, fetch or idle to handle, which
\* prints it and goes on to log out; the iteration and its locals end.
CheckFails(t, at) ==
    /\ Running(t)
    /\ pc[t] = at
    /\ pc' = [pc EXCEPT ![t] = "logout"]
    /\ uids' = [uids EXCEPT ![t] = {}]
    /\ num_new' = [num_new EXCEPT ![t] = 0]
    /\ subjects' = [subjects EXCEPT ![t] = NoSubjects]
    /\ UNCHANGED <<mainPc, startVars, id, last_notified, notification, retryVars,
                   chan, sent, aggVars>>

\* uid_search("NEW 1:*") returns the set raw.
Search(t, raw) ==
    /\ Running(t)
    /\ pc[t] = "search"
    /\ num_new' = [num_new EXCEPT ![t] = Cardinality(raw)]
    /\ uids' = [uids EXCEPT ![t] = Dedupe(raw, last_notified[t])]
    /\ last_notified' = [last_notified EXCEPT ![t] = NextMark(@, uids'[t])]
    /\ subjects' = [subjects EXCEPT ![t] = NoSubjects]
    /\ pc' = [pc EXCEPT ![t] = IF uids'[t] # {} THEN "fetch" ELSE "send"]
    /\ UNCHANGED <<mainPc, startVars, id, notification, retryVars, chan, sent, aggVars>>

SearchFails(t) == CheckFails(t, "search")

\* The maps subjects.insert(date, subject) can leave after the messages with
\* a header that parses were inserted in the order the server sent them:
\* one entry per date, of one of the messages of that date.
SubjectMaps(parsed, date) ==
    {s \in [{date[u] : u \in parsed} -> parsed] : \A d \in DOMAIN s : date[s[d]] = d}

\* A fetch that fails the whole check when one header is missing or does
\* not parse.
FetchStrict(t, missing, bad, date, s) ==
    /\ Running(t)
    /\ pc[t] = "fetch"
    /\ s \in SubjectMaps(uids[t] \ (missing \cup bad), date)
    /\ IF missing \cup bad = {}
         THEN /\ subjects' = [subjects EXCEPT ![t] = s]
              /\ pc' = [pc EXCEPT ![t] = IF DOMAIN s # {} THEN "notify" ELSE "send"]
              /\ UNCHANGED <<uids, num_new>>
         ELSE /\ subjects' = [subjects EXCEPT ![t] = NoSubjects]
              /\ pc' = [pc EXCEPT ![t] = "logout"]
              /\ uids' = [uids EXCEPT ![t] = {}]
              /\ num_new' = [num_new EXCEPT ![t] = 0]
    /\ UNCHANGED <<mainPc, startVars, id, last_notified, notification,
                   retryVars, chan, sent, aggVars>>

\* uid_fetch of the uids: the messages of `missing` come without a header (or
\* not at all), those of `bad` have headers that do not parse, the others
\* carry date[u].
Fetch(t, missing, bad, date, s) ==
    /\ Running(t)
    /\ pc[t] = "fetch"
    /\ s \in SubjectMaps(uids[t] \ (missing \cup bad), date)
    /\ subjects' = [subjects EXCEPT ![t] = s]
    /\ pc' = [pc EXCEPT ![t] = IF DOMAIN s # {} THEN "notify" ELSE "send"]
    /\ UNCHANGED <<mainPc, startVars, id, last_notified, notification, uids,
                   num_new, retryVars, chan, sent, aggVars>>

FetchFails(t) == CheckFails(t, "fetch")

\* The handle left in `notification` by the block that shows the subjects:
\* take() empties it, the taken handle is updated and dropped at the end of
\* the block; with none, show() makes one and it is stored.
AfterNotify(n) == IF n = "Some" THEN "None" ELSE "Some"

\* The notification command is run (its result only printed), then the
\* notification is updated or shown with the subjects, which are not read
\* after it.
Notify(t) ==
    /\ Running(t)
    /\ pc[t] = "notify"
    /\ notification' = [notification EXCEPT ![t] = AfterNotify(@)]
    /\ subjects' = [subjects EXCEPT ![t] = NoSubjects]
    /\ pc' = [pc EXCEPT ![t] = "send"]
    /\ UNCHANGED <<mainPc, startVars, id, last_notified, uids, num_new,
                   retryVars, chan, sent, aggVars>>

\* show() fails: .expect() panics and the thread ends.
NotifyPanics(t) ==
    /\ Running(t)
    /\ pc[t] = "notify"
    /\ notification[t] = "None"
    /\ pc' = [pc EXCEPT ![t] = "panicked"]
    /\ uids' = [uids EXCEPT ![t] = {}]
    /\ num_new' = [num_new EXCEPT ![t] = 0]
    /\ subjects' = [subjects EXCEPT ![t] = NoSubjects]
    /\ UNCHANGED <<mainPc, startVars, id, last_notified, notification,
                   retryVars, chan, sent, aggVars>>

\* tx.send(Some((account, num_new))) with the receiver alive. The locals of
\* the iteration are not read after it: they are cleared here, as they are
\* wherever the iteration ends.
Send(t) ==
    /\ Running(t)
    /\ pc[t] = "send"
    /\ RxAlive
    /\ Len(chan) < MaxChan
    /\ chan' = Append(chan, SomeMsg(id[t], num_new[t]))
    /\ sent' = [sent EXCEPT ![t] = num_new[t]]
    /\ uids' = [uids EXCEPT ![t] = {}]
    /\ num_new' = [num_new EXCEPT ![t] = 0]
    /\ subjects' = [subjects EXCEPT ![t] = NoSubjects]
    /\ pc' = [pc EXCEPT ![t] = "idle"]
    /\ UNCHANGED <<mainPc, startVars, id, last_notified, notification, retryVars, aggVars>>

\* tx.send fails, the receiver is gone: check returns Ok(()), which is not
\* an Err, so the loop of handle calls check again.
SendFails(t) ==
    /\ Running(t)
    /\ pc[t] = "send"
    /\ ~RxAlive
    /\ last_notified' = [last_notified EXCEPT ![t] = 0]
    /\ notification' = [notification EXCEPT ![t] = "None"]
    /\ uids' = [uids EXCEPT ![t] = {}]
    /\ num_new' = [num_new EXCEPT ![t] = 0]
    /\ subjects' = [subjects EXCEPT ![t] = NoSubjects]
    /\ pc' = [pc EXCEPT ![t] = "search"]
    /\ UNCHANGED <<mainPc, startVars, id, retryVars, chan, sent, aggVars>>

\* idle().wait_while(stop_on_any) returns: the next iteration searches.
Idle(t) ==
    /\ Running(t)
    /\ pc[t] = "idle"
    /\ pc' = [pc EXCEPT ![t] = "search"]
    /\ UNCHANGED <<mainPc, startVars, id, checkVars, retryVars, chan, sent, aggVars>>

IdleFails(t) == CheckFails(t, "idle")

\* ----------------------------------------------------- Connection::handle

\* A logout that ends the sessions of the other targets too.
LogoutEverySession(t, r) ==
    /\ Running(t)
    /\ pc[t] = "logout"
    /\ r \in {"ok", "err"}
    /\ pc' = [u \in Targets |->
                IF u = t THEN "reconnect"
                ELSE IF pc[u] \in {"search", "idle"} THEN "logout" ELSE pc[u]]
    /\ UNCHANGED <<mainPc, startVars, id, checkVars, retryVars, chan, sent, aggVars>>

\* A logout whose error ends the thread instead of being dropped.
LogoutOrGiveUp(t, r) ==
    /\ Running(t)
    /\ pc[t] = "logout"
    /\ r \in {"ok", "err"}
    /\ pc' = [pc EXCEPT ![t] = IF r = "ok" THEN "reconnect" ELSE "terminated"]
    /\ UNCHANGED <<mainPc, startVars, id, checkVars, retryVars, chan, sent, aggVars>>

\* let _ = self.socket.logout(): the result r is dropped, and the reconnect
\* loop follows.
Logout(t, r) ==
    /\ Running(t)
    /\ pc[t] = "logout"
    /\ r \in {"ok", "err"}
    /\ pc' = [pc EXCEPT ![t] = "reconnect"]
    /\ UNCHANGED <<mainPc, startVars, id, checkVars, retryVars, chan, sent, aggVars>>

\* The reconnect loop matches Ok(c) and Err(e): every error is retried.
ReconnectRetries(r) == r # "ok"

\* Where the thread is after a failed attempt: the loop runs MaxAttempts
\* times and handle returns after it.
AfterFailedAttempt(n) == IF n = MaxAttempts THEN "terminated" ELSE "reconnect"

\* A reconnect loop whose counter and `wait` outlive a successful connect.
ReconnectOneBudget(t, r) ==
    /\ Running(t)
    /\ pc[t] = "reconnect"
    /\ attempts[t] < MaxAttempts
    /\ IF ReconnectRetries(r)
         THEN /\ slept' = [slept EXCEPT ![t] = Append(@, wait[t])]
              /\ wait' = [wait EXCEPT ![t] = NextWait(@)]
              /\ attempts' = [attempts EXCEPT ![t] = @ + 1]
              /\ pc' = [pc EXCEPT ![t] = AfterFailedAttempt(attempts[t] + 1)]
              /\ UNCHANGED checkVars
         ELSE /\ UNCHANGED retryVars
              /\ last_notified' = [last_notified EXCEPT ![t] = 0]
              /\ notification' = [notification EXCEPT ![t] = "None"]
              /\ pc' = [pc EXCEPT ![t] = "search"]
              /\ UNCHANGED <<uids, num_new, subjects>>
    /\ UNCHANGED <<mainPc, startVars, id, chan, sent, aggVars>>

\* One iteration of the reconnect loop: connect; Ok(c) enters c.handle with
\* the same index and sender, which starts check afresh; an error sleeps
\* `wait` seconds and doubles `wait`.
Reconnect(t, r) ==
    /\ Running(t)
    /\ pc[t] = "reconnect"
    /\ attempts[t] < MaxAttempts
    /\ IF ReconnectRetries(r)
         THEN /\ slept' = [slept EXCEPT ![t] = Append(@, wait[t])]
              /\ wait' = [wait EXCEPT ![t] = NextWait(@)]
              /\ attempts' = [attempts EXCEPT ![t] = @ + 1]
              /\ pc' = [pc EXCEPT ![t] = AfterFailedAttempt(attempts[t] + 1)]
              /\ UNCHANGED checkVars
         ELSE /\ slept' = [slept EXCEPT ![t] = <<>>]
              /\ wait' = [wait EXCEPT ![t] = InitialWait]
              /\ attempts' = [attempts EXCEPT ![t] = 0]
              /\ last_notified' = [last_notified EXCEPT ![t] = 0]
              /\ notification' = [notification EXCEPT ![t] = "None"]
              /\ pc' = [pc EXCEPT ![t] = "search"]
              /\ UNCHANGED <<uids, num_new, subjects>>
    /\ UNCHANGED <<mainPc, startVars, id, chan, sent, aggVars>>

\* ------------------------------------------------- main: the receive loop

\* A slot that adds the count up instead of taking it.
RecordAdd(v, i, n) == [v EXCEPT ![i] = @ + n]

\* new[i] = num_new
Record(v, i, n) == [v EXCEPT ![i] = n]

\* An icon that shows new mail only when every slot counts some.
IconOfEverySlot(v) == IF \E i \in DOMAIN v : v[i] = 0 THEN "UnreadMail" ELSE "NewMail"

\* The icon chosen from the sum of `new`.
IconOf(v) == IF Sum(v) = 0 THEN "UnreadMail" ELSE "NewMail"

\* A loop that drops None and goes on receiving.
RecvPastNone ==
    /\ mainPc = "loop"
    /\ chan # <<>>
    /\ IF Head(chan).some
         THEN /\ new' = Record(new, Head(chan).id, Head(chan).n)
              /\ icon' = IconOf(new')
         ELSE UNCHANGED aggVars
    /\ chan' = Tail(chan)
    /\ UNCHANGED <<mainPc, startVars, id, pc, checkVars, retryVars, sent>>

\* A loop that also ends when every thread has ended and the channel is
\* empty, as it would had main not kept a sender.
RecvOrHangUp ==
    /\ mainPc = "loop"
    /\ IF chan = <<>>
         THEN /\ \A t \in Connected : pc[t] \in {"terminated", "panicked"}
              /\ mainPc' = "returning"
              /\ UNCHANGED <<chan, aggVars>>
         ELSE IF Head(chan).some
              THEN /\ new' = Record(new, Head(chan).id, Head(chan).n)
                   /\ icon' = IconOf(new')
                   /\ chan' = Tail(chan)
                   /\ UNCHANGED mainPc
              ELSE /\ mainPc' = "returning"
                   /\ chan' = <<>>
                   /\ UNCHANGED aggVars
    /\ UNCHANGED <<startVars, id, pc, checkVars, retryVars, sent>>

\* One iteration of `for r in rx`: Some((i, num_new)) is recorded and the
\* icon set; None breaks the loop, which drops the receiver and what the
\* channel still holds.
Recv ==
    /\ mainPc = "loop"
    /\ chan # <<>>
    /\ IF Head(chan).some
         THEN /\ new' = Record(new, Head(chan).id, Head(chan).n)
              /\ icon' = IconOf(new')
              /\ chan' = Tail(chan)
              /\ UNCHANGED mainPc
         ELSE /\ mainPc' = "returning"
              /\ chan' = <<>>
              /\ UNCHANGED aggVars
    /\ UNCHANGED <<startVars, id, pc, checkVars, retryVars, sent>>

\* The shutdown trigger: None is sent on the sender main keeps.
Quit ==
    /\ mainPc = "loop"
    /\ Len(chan) < MaxChan
    /\ chan' = Append(chan, NoneMsg)
    /\ UNCHANGED <<mainPc, startVars, id, pc, checkVars, retryVars, sent, aggVars>>

\* main returns after the loop and the process ends, its threads with it.
Exit ==
    /\ mainPc = "returning"
    /\ mainPc' = "exited"
    /\ UNCHANGED <<startVars, id, pc, checkVars, retryVars, chan, sent, aggVars>>

\* The exit status of the process: main is `fn main()` and ends by `return;`
\* or by running off its end, never by process::exit, so the status is 0
\* (-1 here while the process runs).
ExitCode == IF mainPc = "exited" THEN 0 ELSE -1

\* ------------------------------------------------------------ specification

ConnectionStep(t) ==
    \/ \E raw \in SUBSET Uids : Search(t, raw)
    \/ SearchFails(t)
    \/ \E missing \in SUBSET uids[t] :
         \E bad \in SUBSET (uids[t] \ missing) :
           \E date \in [uids[t] \ (missing \cup bad) -> Dates] :
             \E s \in SubjectMaps(uids[t] \ (missing \cup bad), date) :
               Fetch(t, missing, bad, date, s)
    \/ FetchFails(t)
    \/ Notify(t)
    \/ NotifyPanics(t)
    \/ Send(t)
    \/ SendFails(t)
    \/ Idle(t)
    \/ IdleFails(t)
    \/ \E r \in {"ok", "err"} : Logout(t, r)
    \/ \E r \in ConnectResults : Reconnect(t, r)

Next ==
    \/ \E t \in Targets : \E r \in ConnectResults : StartConnect(t, r)
    \/ NoAccountWorked
    \/ Spawn
    \/ \E t \in Targets : ConnectionStep(t)
    \/ Recv
    \/ Quit
    \/ Exit

Spec == Init /\ [][Next]_vars

\* The runs in which only the first target is still tried at startup: the
\* others have been given up.
InitOne == InitTrying({1})

SpecOne == InitOne /\ [][Next]_vars

\* ------------------------------------------------------------------ claims

\* C1: the ids whose headers a poll fetches and details never include an id
\* that is <= the mark held when the poll started.
C1_FetchedIdsAreNew ==
    [][\A t \in Targets :
         (pc[t] = "search" /\ pc'[t] = "fetch")
           => \A u \in uids'[t] : u > last_notified[t]]_vars

\* C2: the mark of a target never decreases, whatever the step: a poll, a
\* failure or a successful reconnect.
C2_MarkNeverDecreases ==
    [][\A t \in Targets : last_notified'[t] >= last_notified[t]]_vars

\* C3: a poll whose search result is not empty and has no id above the mark
\* counts the whole result in num_new, fetches nothing, details nothing and
\* leaves the mark as it was; the count it goes on to send is that num_new.
C3_AllOldBatch ==
    [][\A t \in Targets :
         /\ \A raw \in SUBSET Uids :
              (Search(t, raw) /\ raw # {} /\ \A u \in raw : u <= last_notified[t])
                => /\ num_new'[t] = Cardinality(raw)
                   /\ uids'[t] = {}
                   /\ subjects'[t] = NoSubjects
                   /\ pc'[t] = "send"
                   /\ last_notified'[t] = last_notified[t]
         /\ (pc[t] = "send" /\ pc'[t] = "idle")
              => /\ chan' = Append(chan, SomeMsg(id[t], num_new[t]))
                 /\ last_notified'[t] = last_notified[t]]_vars

\* C3 witness: a poll found both messages reported again after both were
\* notified: count 2, nothing to fetch, the mark still 2.
C3_Witness ==
    /\ pc[1] = "send"
    /\ uids[1] = {}
    /\ num_new[1] = 2
    /\ last_notified[1] = 2
    /\ subjects[1] = NoSubjects

\* The delays of a whole reconnect loop.
Backoff == <<1, 2, 4, 8, 16>>

\* C4: a reconnect loop makes at most MaxAttempts attempts; it has slept
\* once per failed attempt, 1, 2, 4, 8, 16 seconds in this order, and handle
\* returns only after the fifth failed attempt.
C4_BoundedBackoff ==
    \A t \in Targets :
      /\ attempts[t] <= MaxAttempts
      /\ Len(slept[t]) = attempts[t]
      /\ slept[t] = SubSeq(Backoff, 1, attempts[t])
      /\ pc[t] = "terminated" <=> attempts[t] = MaxAttempts
      /\ pc[t] \notin {"reconnect", "terminated"} => attempts[t] = 0

\* C4 witness: five attempts failed and the five delays were slept.
C4_Witness ==
    /\ pc[1] = "terminated"
    /\ attempts[1] = 5
    /\ slept[1] = <<1, 2, 4, 8, 16>>

\* Messages of target t's connection that the channel holds.
InFlight(t) ==
    Cardinality({k \in DOMAIN chan : chan[k].some /\ chan[k].id = id[t]})

\* C5: a connection whose fifth reconnect attempt failed stays terminated
\* and sends nothing more; its slot of `new` holds the last count it sent
\* once the channel holds no message of it, and changes no more; messages of
\* the other connections are still recorded as they are received.
C5_TerminatedFrozen ==
    [][\A t \in Targets :
         pc[t] = "terminated"
           => /\ pc'[t] = "terminated"
              /\ attempts[t] = MaxAttempts
              /\ sent'[t] = sent[t]
              /\ InFlight(t)' <= InFlight(t)
              /\ (mainPc = "loop" /\ InFlight(t) = 0)
                   => /\ new[id[t]] = sent[t]
                      /\ new'[id[t]] = new[id[t]]
              /\ (mainPc = "loop" /\ chan # <<>> /\ chan' = Tail(chan) /\ Head(chan).some)
                   => new'[Head(chan).id] = Head(chan).n]_vars

\* C5 witness: the first connection has terminated with its slot at the 1 it
\* sent last, and the count 2 of the second connection is recorded.
C5_Witness ==
    /\ mainPc = "loop"
    /\ pc[1] = "terminated"
    /\ sent[1] = 1
    /\ pc[2] = "idle"
    /\ chan = <<>>
    /\ new[0] = 1
    /\ new[1] = 2

\* C6: a send that fails because the receiver is gone ends the connection:
\* the thread goes nowhere but to its end.
C6_FailedSendEndsThread ==
    [][\A t \in Targets :
         (pc[t] = "send" /\ ~RxAlive /\ pc'[t] # pc[t])
           => pc'[t] = "terminated"]_vars

\* C7: a connect attempt that fails for want of IDLE is the last attempt for
\* its target, at startup and in the reconnect loop.
C7_NoIdleNeverRetried ==
    [][\A t \in Targets :
         /\ StartConnect(t, "noidle") => st'[t] = "dropped"
         /\ Reconnect(t, "noidle") => pc'[t] = "terminated"]_vars

\* C8: a connection that holds a notification handle still holds it after
\* the next batch was shown: the batch updated that handle.
C8_HandleKept ==
    [][\A t \in Targets :
         (pc[t] = "notify" /\ pc'[t] = "send" /\ notification[t] = "Some")
           => notification'[t] = "Some"]_vars

ConnState(t) ==
    <<id[t], pc[t], last_notified[t], notification[t], uids[t], num_new[t],
      subjects[t], attempts[t], wait[t], slept[t], sent[t]>>

\* A step in which the connection of target t fails: its check returns an
\* error, it logs out, a reconnect attempt fails, the thread ends after the
\* last one, or show() panics.
FailureStep(t) ==
    /\ ConnState(t)' # ConnState(t)
    /\ pc'[t] \in {"logout", "reconnect", "terminated", "panicked"}

\* C10: a failure step of one connection changes nothing of any other
\* connection, nothing of the channel and nothing of main; and `new` changes
\* only when main sets it up or takes a count message from the channel.
C10_FailureIsLocal ==
    [][/\ \A t \in Targets :
            FailureStep(t)
              => /\ \A u \in Targets \ {t} : ConnState(u)' = ConnState(u)
                 /\ UNCHANGED <<mainPc, startVars, chan, new, icon>>
       /\ new' # new
            => \/ mainPc = "startup"
               \/ /\ mainPc = "loop"
                  /\ chan # <<>>
                  /\ Head(chan).some
                  /\ new' = [new EXCEPT ![Head(chan).id] = Head(chan).n]]_vars

\* C10 witness: the first connection is in its third reconnect attempt while
\* the second, untouched, is about to show the batch of its second poll.
C10_Witness ==
    /\ pc[1] = "reconnect"
    /\ attempts[1] = 2
    /\ pc[2] = "notify"
    /\ last_notified[2] = 2
    /\ notification[2] = "Some"
    /\ sent[2] = 1

\* C11: in one session a thread goes search, notify (only with subjects to
\* show), send, wait, and search again: it shows only what it has just
\* fetched, it waits only after its count was sent, and it searches again
\* only after a wait, or in a new session (spawned or reconnected).
C11_PollNotifyReportWait ==
    [][\A t \in Targets :
         pc'[t] # pc[t]
           => /\ pc'[t] = "fetch" => pc[t] = "search"
              /\ pc'[t] = "notify" => pc[t] = "fetch" /\ subjects'[t] # NoSubjects
              /\ pc'[t] = "send" => pc[t] \in {"search", "fetch", "notify"}
              /\ pc'[t] = "idle"
                   => /\ pc[t] = "send"
                      /\ chan' = Append(chan, SomeMsg(id[t], num_new[t]))
              /\ pc'[t] = "search" => pc[t] \in {"idle", "reconnect", "unspawned"}]_vars

\* C12: the receive that takes None from the channel ends the loop of main
\* and leaves `new` and the icon as they are; once the loop has ended it
\* never runs again, nothing is received any more and `new` and the icon
\* change no more, whatever the connections go on to do.
C12_SentinelEndsLoop ==
    [][/\ (mainPc = "loop" /\ chan # <<>> /\ ~Head(chan).some /\ Len(chan') < Len(chan))
            => /\ mainPc' = "returning"
               /\ UNCHANGED <<new, icon>>
       /\ mainPc \in {"returning", "exited"}
            => /\ mainPc' \in {"returning", "exited"}
               /\ chan' = <<>>
               /\ UNCHANGED <<new, icon>>]_vars

\* C12 witness: the loop has ended with the vector at the 1 received last
\* while the connection holds the count 2 of its next poll, still to send.
C12_Witness ==
    /\ mainPc = "returning"
    /\ new[0] = 1
    /\ sent[1] = 1
    /\ pc[1] = "send"
    /\ num_new[1] = 2

\* C13: once main has spawned the threads, the indices of the connections
\* are exactly 0..N-1, N the number of targets that connected at startup, one
\* index per connection; `new` has exactly these N slots; every count in the
\* channel carries one of these indices; and no step, a reconnect included,
\* changes an index or the slots.
C13_DenseStableIds ==
    /\ [](mainPc # "startup" /\ Connected # {}
            => /\ {id[t] : t \in Connected} = 0..(Cardinality(Connected) - 1)
               /\ \A t, u \in Connected : id[t] = id[u] => t = u
               /\ \A t \in Targets \ Connected : id[t] = -1
               /\ DOMAIN new = 0..(Cardinality(Connected) - 1)
               /\ \A k \in DOMAIN chan :
                    chan[k].some => chan[k].id \in 0..(Cardinality(Connected) - 1))
    /\ [][mainPc # "startup" => id' = id /\ DOMAIN new' = DOMAIN new]_vars

\* C13 witness: the first target was given up at startup, so the connection
\* of the second has index 0; it is reconnecting after a failure, and the
\* count it sent before is in the channel with index 0.
C13_Witness ==
    /\ st = <<"dropped", "ok">>
    /\ id = <<-1, 0>>
    /\ pc[2] = "reconnect"
    /\ attempts[2] = 1
    /\ chan = <<SomeMsg(0, 1)>>

\* C14: every receive of a count leaves the icon computed from the whole
\* vector as it is after the update: NewMail exactly when the sum of the
\* slots is not zero, UnreadMail (no new mail) exactly when every slot is
\* zero, whatever the icon was before.
C14_IconFromWholeVector ==
    [][(mainPc = "loop" /\ chan # <<>> /\ Head(chan).some /\ Len(chan') < Len(chan))
         => /\ icon' = "NewMail" <=> Sum(new') # 0
            /\ icon' = "UnreadMail" <=> \A i \in DOMAIN new' : new'[i] = 0
            /\ icon' \in {"NewMail", "UnreadMail"}]_vars

\* C14 witness: the first connection found a message, reported 1 and then
\* 0, and main has received both: with two slots at zero the icon is back
\* from NewMail to UnreadMail.
C14_Witness ==
    /\ mainPc = "loop"
    /\ chan = <<>>
    /\ pc[1] = "idle"
    /\ last_notified[1] = 1
    /\ sent = <<0, 0>>
    /\ new[0] = 0
    /\ new[1] = 0
    /\ icon = "UnreadMail"

\* C15: a process that has ended has exit status 0 exactly when some target
\* had connected at startup (the shutdown after the loop); when no target
\* could be connected the status is not 0.
C15_ExitCodes ==
    mainPc = "exited" => (ExitCode = 0 <=> Connected # {})

\* C16: a fetch leaves one subject line per message whose header came and
\* parsed, whatever the dates, equal ones included: as many lines as such
\* messages, each message behind one of them (the lines are shown by
\* descending date).
C16_OneEntryPerParsedMessage ==
    [][\A t \in Targets :
         \A missing \in SUBSET uids[t] :
           \A bad \in SUBSET (uids[t] \ missing) :
             \A date \in [uids[t] \ (missing \cup bad) -> Dates] :
               \A s \in SubjectMaps(uids[t] \ (missing \cup bad), date) :
                 Fetch(t, missing, bad, date, s)
                   => /\ Cardinality(DOMAIN subjects'[t])
                           = Cardinality(uids[t] \ (missing \cup bad))
                      /\ {subjects'[t][d] : d \in DOMAIN subjects'[t]}
                           = uids[t] \ (missing \cup bad)]_vars

\* C17: when the headers of a poll have been fetched the mark is the largest
\* uid shown to the user: the largest uid with a subject line in the batch
\* about to be shown, and, when the batch has no subject line to show, not
\* a uid of this batch (each uid of a fetched batch is above every uid shown
\* before). The mark never covers a message whose header did not come or
\* did not parse.
C17_MarkIsLargestSurfaced ==
    [][\A t \in Targets :
         (pc[t] = "fetch" /\ pc'[t] \in {"notify", "send"})
           => LET shown == {subjects'[t][d] : d \in DOMAIN subjects'[t]}
              IN  IF shown # {}
                    THEN last_notified'[t] = Max(shown)
                    ELSE last_notified'[t] < Max(uids[t])]_vars

\* C18: a failed search, fetch or wait takes the thread to the logout and
\* nowhere else, and nothing else takes it there; the logout, failed or not,
\* is followed at once by the reconnect loop, no attempt made and no delay
\* slept yet; from the reconnect loop the thread never logs out again, and
\* it searches again only through a connect that succeeded, on the new
\* session.
C18_FailureLogsOutThenReconnects ==
    [][\A t \in Targets :
         /\ \A at \in {"search", "fetch", "idle"} :
              CheckFails(t, at) => pc'[t] = "logout"
         /\ (pc'[t] = "logout" /\ pc[t] # "logout")
              => pc[t] \in {"search", "fetch", "idle"}
         /\ \A r \in {"ok", "err"} :
              Logout(t, r)
                => /\ pc'[t] = "reconnect"
                   /\ attempts'[t] = 0
                   /\ slept'[t] = <<>>
         /\ (pc[t] = "logout" /\ pc'[t] # "logout") => pc'[t] = "reconnect"
         /\ (pc[t] = "reconnect" /\ pc'[t] # "reconnect")
              => \/ pc'[t] = "terminated"
                 \/ pc'[t] = "search" /\ Reconnect(t, "ok")]_vars

\* C18 witness: after it reported 2 the connection failed and logged out;
\* it is in the reconnect loop with no attempt made yet.
C18_Witness ==
    /\ pc[1] = "reconnect"
    /\ attempts[1] = 0
    /\ slept[1] = <<>>
    /\ sent[1] = 2
    /\ mainPc = "loop"

\* C19: a fetch in which some headers are missing or do not parse skips
\* those messages only: every date of a message that parsed has its subject
\* line, of a message that parsed; the count to report is untouched; and
\* the thread goes on to show the lines, or to send when there is none,
\* not to the logout. The send that follows carries that count.
C19_BadHeaderSkipsOneMessage ==
    [][\A t \in Targets :
         /\ \A missing \in SUBSET uids[t] :
              \A bad \in SUBSET (uids[t] \ missing) :
                \A date \in [uids[t] \ (missing \cup bad) -> Dates] :
                  \A s \in SubjectMaps(uids[t] \ (missing \cup bad), date) :
                    (Fetch(t, missing, bad, date, s) /\ missing \cup bad # {})
                      => LET parsed == uids[t] \ (missing \cup bad)
                         IN  /\ DOMAIN subjects'[t] = {date[u] : u \in parsed}
                             /\ \A d \in DOMAIN subjects'[t] :
                                  /\ subjects'[t][d] \in parsed
                                  /\ date[subjects'[t][d]] = d
                             /\ num_new'[t] = num_new[t]
                             /\ pc'[t] = IF parsed # {} THEN "notify" ELSE "send"
         /\ (pc[t] = "notify" /\ pc'[t] # "notify") => pc'[t] \in {"send", "panicked"}
         /\ (pc[t] = "send" /\ RxAlive /\ pc'[t] # "send")
              => /\ pc'[t] = "idle"
                 /\ chan' = Append(chan, SomeMsg(id[t], num_new[t]))]_vars

\* C19 witness: of the two messages of the batch only the second has a
\* header that parsed; its subject line is about to be shown and the count
\* to report is 2.
C19_Witness ==
    /\ pc[1] = "notify"
    /\ uids[1] = {1, 2}
    /\ num_new[1] = 2
    /\ subjects[1] = [d \in {1} |-> 2]

\* C20: main leaves its loop only by receiving None, whatever the threads
\* have come to, all of them ended included; None enters the channel only
\* by the shutdown trigger, not by a step of a connection; and the receiver
\* is alive as long as main is in the loop.
C20_LoopEndsOnlyBySentinel ==
    [][/\ mainPc = "loop"
            => /\ RxAlive
               /\ \/ mainPc' = "loop"
                  \/ /\ mainPc' = "returning"
                     /\ chan # <<>>
                     /\ ~Head(chan).some
       /\ Len(chan') > Len(chan)
            => \/ chan'[Len(chan')].some
               \/ /\ chan' = Append(chan, NoneMsg)
                  /\ UNCHANGED <<pc, checkVars, retryVars, sent>>]_vars

\* C20 witness: the only connection has terminated, the channel is empty
\* and main is still in its loop.
C20_Witness ==
    /\ mainPc = "loop"
    /\ Connected = {1}
    /\ pc[1] = "terminated"
    /\ chan = <<>>
    /\ new[0] = 1

\* C21: a connect that succeeds in the reconnect loop takes the thread back
\* to searching with the index it had, no attempt counted, no delay slept
\* and `wait` back at 1 second; so every reconnect loop, the first and any
\* later one, starts with all MaxAttempts attempts ahead and the delay at 1
\* second, and no count of attempts is carried from one loop to the next.
C21_FreshBudgetAfterReconnect ==
    [][\A t \in Targets :
         /\ (pc[t] = "reconnect" /\ pc'[t] = "search")
              => /\ attempts'[t] = 0
                 /\ wait'[t] = InitialWait
                 /\ slept'[t] = <<>>
                 /\ id'[t] = id[t]
         /\ (pc[t] = "logout" /\ pc'[t] = "reconnect")
              => /\ attempts'[t] = 0
                 /\ wait'[t] = InitialWait
                 /\ slept'[t] = <<>>
                 /\ id'[t] = id[t]
         /\ (pc[t] = "reconnect" /\ pc'[t] \in {"reconnect", "terminated"}
               /\ attempts'[t] # attempts[t])
              => /\ attempts'[t] = attempts[t] + 1
                 /\ attempts'[t] <= MaxAttempts
                 /\ slept'[t] = Append(slept[t], wait[t])
                 /\ id'[t] = id[t]]_vars

\* C21 witness: the connection reported 2, failed and reconnected (its mark
\* started again and is now 1), failed again, and in this second reconnect
\* loop all five attempts were made, with delays from 1 second on.
C21_Witness ==
    /\ mainPc = "loop"
    /\ id[1] = 0
    /\ sent[1] = 2
    /\ last_notified[1] = 1
    /\ pc[1] = "terminated"
    /\ attempts[1] = MaxAttempts
    /\ slept[1] = <<1, 2, 4, 8, 16>>

====
